---- MODULE Spec2Model ----
(***************************************************************************)
(* Multi-state lifetable population engine of unimelb_viv.mslt_house:      *)
(* BasePopulation, Mortality and Disability (population.py).               *)
(*                                                                         *)
(* Numbers.  numpy float64 values are carried as exact extended rationals  *)
(* <<n, d>>: d > 0 is the fraction n/d in lowest terms, <<1, 0>> is +inf,  *)
(* <<-1, 0>> is -inf and <<0, 0>> is nan.  Rounding error is not modelled. *)
(*                                                                         *)
(* Mortality rates.  A mortality rate r is carried as its one-step         *)
(* survival exp(-r): rate 0 is survival 1, rate +inf is survival 0, and    *)
(* the rate r * k for a natural ratio k is survival exp(-r)^k.  exp and    *)
(* log are then exact on the values the model draws.  Rate ratios are      *)
(* naturals.  YLD rates are ordinary rationals.                            *)
(***************************************************************************)
EXTENDS Integers, Sequences, FiniteSets, TLC

\* ------------------------------------------------------------------ bounds
\* Resolution of the root-finder: brentq's tolerance is one cell of 1/Grid.
Grid == 8
\* Largest rate ratio drawn by a lookup.
MaxRatio == 2
\* Largest stratum size drawn for a direct call of a disaggregator.
MaxPop == 2
\* Largest number of strata in a direct call of a disaggregator.
MaxStrata == 2
\* Number of time steps the clock runs.
MaxSteps == 3

\* ------------------------------------------------- extended rational numbers
RECURSIVE GCD(_, _)
GCD(a, b) == IF b = 0 THEN a ELSE GCD(b, a % b)

Abs(n) == IF n < 0 THEN -n ELSE n

Sgn(n) == IF n > 0 THEN 1 ELSE IF n < 0 THEN -1 ELSE 0

\* n/d as a float value; x/0 is +-inf and 0/0 is nan as in numpy.
Q(n, d) ==
    IF d = 0 THEN <<Sgn(n), 0>>
    ELSE LET g == GCD(Abs(n), Abs(d))
             s == IF d < 0 THEN -1 ELSE 1
         IN  <<(s * n) \div g, (s * d) \div g>>

NaN == <<0, 0>>
PInf == <<1, 0>>
NInf == <<-1, 0>>
Zero == <<0, 1>>
One == <<1, 1>>
Half == <<1, 2>>

IsNaN(x) == x = NaN
IsFinite(x) == x[2] > 0
QSgn(x) == Sgn(x[1])

QNeg(x) == <<-x[1], x[2]>>

QAdd(x, y) ==
    IF IsNaN(x) \/ IsNaN(y) THEN NaN
    ELSE IF ~IsFinite(x) THEN (IF ~IsFinite(y) /\ y # x THEN NaN ELSE x)
    ELSE IF ~IsFinite(y) THEN y
    ELSE Q(x[1] * y[2] + y[1] * x[2], x[2] * y[2])

QSub(x, y) == QAdd(x, QNeg(y))

QMul(x, y) ==
    IF IsNaN(x) \/ IsNaN(y) THEN NaN
    ELSE IF ~IsFinite(x) \/ ~IsFinite(y)
         THEN <<QSgn(x) * QSgn(y), 0>>
    ELSE Q(x[1] * y[1], x[2] * y[2])

QDiv(x, y) ==
    IF IsNaN(x) \/ IsNaN(y) THEN NaN
    ELSE IF ~IsFinite(y) THEN (IF IsFinite(x) THEN Zero ELSE NaN)
    ELSE IF ~IsFinite(x) THEN (IF QSgn(y) < 0 THEN QNeg(x) ELSE x)
    ELSE IF y[1] = 0 THEN <<QSgn(x), 0>>
    ELSE Q(x[1] * y[2], x[2] * y[1])

\* Comparisons are false whenever an operand is nan, as for floats.
QLt(x, y) ==
    /\ ~IsNaN(x)
    /\ ~IsNaN(y)
    /\ IF IsFinite(x) /\ IsFinite(y) THEN x[1] * y[2] < y[1] * x[2]
       ELSE IF ~IsFinite(x) /\ ~IsFinite(y) THEN x[1] < y[1]
       ELSE IF IsFinite(x) THEN y = PInf
       ELSE x = NInf

QLe(x, y) == ~IsNaN(x) /\ ~IsNaN(y) /\ ~QLt(y, x)

QEq(x, y) == ~IsNaN(x) /\ x = y

QAbs(x) == <<Abs(x[1]), x[2]>>

\* np.power(x, k) for a natural k; np.power(0, 0) is 1.
RECURSIVE QPow(_, _)
QPow(x, k) == IF k = 0 THEN One ELSE QMul(x, QPow(x, k - 1))

\* Sum of a float-valued function over its (finite) domain.
RECURSIVE SumOver(_, _)
SumOver(g, S) ==
    IF S = {} THEN Zero
    ELSE LET i == CHOOSE j \in S : \A k \in S : j <= k
         IN  QAdd(g[i], SumOver(g, S \ {i}))

\* np.sum, and the groupby sum, of a column.
Total(g) == SumOver(g, DOMAIN g)

\* ------------------------------------------------------------ mortality rates
\* A mortality rate, carried as its survival exp(-rate).
Rate(x) == [surv |-> x]
RateZero == Rate(One)
RateInf == Rate(Zero)
RateNaN == Rate(NaN)

\* np.exp(-rate)
ExpNeg(rate) == rate.surv

\* -np.log(x) for x in [0, 1]; -log(0) is +inf.
NegLog(x) == Rate(x)

\* rate * k for a natural k; inf * 0 is nan.
RateTimes(rate, k) ==
    IF IsNaN(rate.surv) THEN RateNaN
    ELSE IF rate = RateInf /\ k = 0 THEN RateNaN
    ELSE Rate(QPow(rate.surv, k))

\* ------------------------------------------------------------------ Mortality
population_state_timestep_2state(p, rate) == QMul(p, ExpNeg(rate))

\* The lambda f of get_subpop_rates_2state.
f(agg_pop, agg_rate, sub_pops, rate_ratios, x) ==
    QSub(Total([i \in DOMAIN sub_pops |->
                    QMul(sub_pops[i], QPow(x, rate_ratios[i]))]),
         population_state_timestep_2state(agg_pop, agg_rate))

GridPoint(k) == Q(k, Grid)

\* optimize.brentq(f, 0, 1): the set of values it may return; the empty set
\* is its ValueError (f(0) and f(1) have the same sign).  An end point is
\* returned only when f vanishes there; otherwise the result is an interior
\* point within one tolerance cell of a sign change of f.
brentq(agg_pop, agg_rate, sub_pops, rate_ratios) ==
    LET F(k) == f(agg_pop, agg_rate, sub_pops, rate_ratios, GridPoint(k))
    IN  IF QLt(Zero, QMul(F(0), F(Grid))) THEN {}
        ELSE IF F(0) = Zero THEN {GridPoint(0)}
        ELSE IF F(Grid) = Zero THEN {GridPoint(Grid)}
        ELSE {GridPoint(k) : k \in
                {j \in 1..(Grid - 1) :
                    \/ F(j) = Zero
                    \/ \E n \in {j - 1, j + 1} : QLt(QMul(F(j), F(n)), Zero)}}

\* Lines 159-160: the root solve and the returned rates.
solve_root(agg_pop, agg_rate, sub_pops, rate_ratios) ==
    LET roots == brentq(agg_pop, agg_rate, sub_pops, rate_ratios)
    IN  IF roots = {} THEN {[kind |-> "ValueError", rates |-> <<>>]}
        ELSE {[kind |-> "return",
               rates |-> [i \in DOMAIN rate_ratios |->
                             RateTimes(NegLog(root), rate_ratios[i])]] :
                 root \in roots}

\* Line 157: f(0)*f(1) >= 0.
no_sign_change(agg_pop, agg_rate, sub_pops, rate_ratios) ==
    QLe(Zero, QMul(f(agg_pop, agg_rate, sub_pops, rate_ratios, GridPoint(0)),
                   f(agg_pop, agg_rate, sub_pops, rate_ratios, GridPoint(Grid))))

\* Line 158: pdb.set_trace() stops in the debugger; the session either quits
\* (bdb.BdbQuit propagates) or continues into line 159.
pdb_set_trace(agg_pop, agg_rate, sub_pops, rate_ratios) ==
    {[kind |-> "BdbQuit", rates |-> <<>>]}
        \cup solve_root(agg_pop, agg_rate, sub_pops, rate_ratios)

\* get_subpop_rates_2state without the agg_rate == 0 fast path.
get_subpop_rates_2state_always_solve(agg_pop, agg_rate, sub_pops, rate_ratios) ==
    IF no_sign_change(agg_pop, agg_rate, sub_pops, rate_ratios)
    THEN {[kind |-> o.kind, pdb |-> TRUE, rates |-> o.rates] :
            o \in pdb_set_trace(agg_pop, agg_rate, sub_pops, rate_ratios)}
    ELSE {[kind |-> o.kind, pdb |-> FALSE, rates |-> o.rates] :
            o \in solve_root(agg_pop, agg_rate, sub_pops, rate_ratios)}

\* Every outcome of one call: kind is "return" with the rates, or the
\* exception raised; pdb tells whether the debugger was entered.
get_subpop_rates_2state(agg_pop, agg_rate, sub_pops, rate_ratios) ==
    IF agg_rate = RateZero
    THEN {[kind |-> "return", pdb |-> FALSE,
           rates |-> [i \in DOMAIN rate_ratios |-> RateZero]]}
    ELSE IF no_sign_change(agg_pop, agg_rate, sub_pops, rate_ratios)
    THEN {[kind |-> o.kind, pdb |-> TRUE, rates |-> o.rates] :
            o \in pdb_set_trace(agg_pop, agg_rate, sub_pops, rate_ratios)}
    ELSE {[kind |-> o.kind, pdb |-> FALSE, rates |-> o.rates] :
            o \in solve_root(agg_pop, agg_rate, sub_pops, rate_ratios)}

\* ----------------------------------------------------------------- Disability
\* disaggregate_YLD with the reference rate taken over the unweighted
\* person-years.
disaggregate_YLD_unweighted(agg_py, agg_yld, sub_py, sub_yld_ratios) ==
    IF agg_yld = Zero
    THEN [i \in DOMAIN sub_py |-> QMul(Zero, sub_py[i])]
    ELSE LET ref_YLD == QDiv(QMul(agg_py, agg_yld), Total(sub_py))
         IN  [i \in DOMAIN sub_yld_ratios |->
                 QMul(ref_YLD, Q(sub_yld_ratios[i], 1))]

disaggregate_YLD(agg_py, agg_yld, sub_py, sub_yld_ratios) ==
    IF agg_yld = Zero
    THEN [i \in DOMAIN sub_py |-> QMul(Zero, sub_py[i])]
    ELSE LET ref_YLD ==
                 QDiv(QMul(agg_py, agg_yld),
                      Total([i \in DOMAIN sub_py |->
                                QMul(Q(sub_yld_ratios[i], 1), sub_py[i])]))
         IN  [i \in DOMAIN sub_yld_ratios |->
                 QMul(ref_YLD, Q(sub_yld_ratios[i], 1))]

\* ------------------------------------------------------------- BasePopulation
\* configuration_defaults: population.max_age
max_age == 110

Sexes == {"female", "male"}

\* groupby(['sex', 'age']) yields the cohort keys sorted by sex, then age.
SexRank(sex) == IF sex = "female" THEN 0 ELSE 1

KeyLess(a, b) ==
    \/ SexRank(a[1]) < SexRank(b[1])
    \/ a[1] = b[1] /\ a[2] < b[2]

RECURSIVE SortKeys(_)
SortKeys(K) ==
    IF K = {} THEN <<>>
    ELSE LET k == CHOOSE a \in K : \A b \in K \ {a} : KeyLess(a, b)
         IN  <<k>> \o SortKeys(K \ {k})

\* The rows of pop_agg.merge(pop_prop, how='inner', on=['age', 'sex']) with
\* population = value * prop, bau_population = population, and the columns
\* setup() adds as 0.0; every simulant starts tracked.
load_population_data(pop_agg, pop_prop) ==
    LET pairs == SelectSeq(
                    [n \in 1..(Len(pop_agg) * Len(pop_prop)) |->
                        <<((n - 1) \div Len(pop_prop)) + 1,
                          ((n - 1) % Len(pop_prop)) + 1>>],
                    LAMBDA pr : /\ pop_agg[pr[1]].age = pop_prop[pr[2]].age
                                /\ pop_agg[pr[1]].sex = pop_prop[pr[2]].sex)
    IN  [n \in 1..Len(pairs) |->
           LET a == pop_agg[pairs[n][1]]
               b == pop_prop[pairs[n][2]]
               size == QMul(a.value, b.value)
           IN  [age |-> a.age, sex |-> a.sex, strata |-> b.strata,
                tracked |-> TRUE,
                population |-> size, bau_population |-> size,
                acmr |-> RateZero, acmr_prop |-> 0, bau_acmr |-> RateZero,
                pr_death |-> Zero, bau_pr_death |-> Zero,
                deaths |-> Zero, bau_deaths |-> Zero,
                yld_rate |-> Zero, yld_prop |-> 0, bau_yld_rate |-> Zero,
                person_years |-> Zero, bau_person_years |-> Zero,
                HALY |-> Zero, bau_HALY |-> Zero]]

\* A view that does not filter on tracked.
view_get_all(table) == DOMAIN table

\* population_view.get(event.index) of a view created without the 'tracked'
\* column (Mortality, Disability), and get(..., query='tracked == True') of
\* BasePopulation: the tracked rows.
view_get(table) == {r \in DOMAIN table : table[r].tracked}

\* on_time_step_prepare with `>=` for `>` on line 100: the first time step
\* ages the cohorts too.
on_time_step_prepare_ages_first(table, year) ==
    [r \in DOMAIN table |->
        IF r \in view_get(table)
        THEN LET a == IF year >= 0 THEN table[r].age + 1 ELSE table[r].age
             IN  [table[r] EXCEPT
                     !.age = a,
                     !.tracked = IF a > max_age THEN FALSE ELSE @]
        ELSE table[r]]

\* The table after on_time_step_prepare at the given year offset
\* (clock().year - start_year).
on_time_step_prepare(table, year) ==
    [r \in DOMAIN table |->
        IF r \in view_get(table)
        THEN LET a == IF year > 0 THEN table[r].age + 1 ELSE table[r].age
             IN  [table[r] EXCEPT
                     !.age = a,
                     !.tracked = IF a > max_age THEN FALSE ELSE @]
        ELSE table[r]]

CohortKeys(table, view) == {<<table[r].sex, table[r].age>> : r \in view}

Strata(table, view, key) ==
    {r \in view : table[r].sex = key[1] /\ table[r].age = key[2]}

\* .iloc[0] of a selection of rows.
First(rows) == CHOOSE r \in rows : \A q \in rows : r <= q

\* ---------------------------------------------------- Mortality.on_time_step
\* Lines 197-200: merge the cohort's rates into the acmr column by row index;
\* fillna keeps the previous value wherever the merged value is missing or nan.
merge_acmr(col, rates) ==
    [r \in DOMAIN col |->
        IF r \in DOMAIN rates /\ ~IsNaN(rates[r].surv) THEN rates[r]
        ELSE col[r]]

\* Lines 186-200: the loop over the cohorts from `keys` on.  st is
\* [acmr, kind, pdb, calls]: the acmr column of pop_prop so far, "ok" or the
\* exception that left the loop, whether the debugger was entered, and the
\* number of calls of get_subpop_rates_2state made.
RECURSIVE mortality_loop(_, _, _, _, _)
mortality_loop(keys, st, table, view, prop) ==
    IF keys = <<>> \/ st.kind # "ok" THEN {st}
    ELSE LET strata == Strata(table, view, Head(keys))
             sizes == [r \in strata |-> table[r].population]
             outs == get_subpop_rates_2state(
                        Total(sizes), st.acmr[First(strata)],
                        sizes, [r \in strata |-> prop[r]])
         IN  UNION {mortality_loop(Tail(keys),
                        IF o.kind = "return"
                        THEN [acmr |-> merge_acmr(st.acmr, o.rates),
                              kind |-> "ok", pdb |-> st.pdb \/ o.pdb,
                              calls |-> st.calls + 1]
                        ELSE [acmr |-> st.acmr,
                              kind |-> o.kind, pdb |-> st.pdb \/ o.pdb,
                              calls |-> st.calls + 1],
                        table, view, prop) : o \in outs}

\* population *= 1 + probability_of_death
survivors_sign_slip(population, probability_of_death) ==
    QMul(population, QAdd(One, probability_of_death))

\* Lines 207 and 216: population *= 1 - probability_of_death
survivors(population, probability_of_death) ==
    QMul(population, QSub(One, probability_of_death))

\* Lines 204-219: the state update of one row from its rates.
mortality_row(row, acmr, acmr_prop, bau_acmr) ==
    LET probability_of_death == QSub(One, ExpNeg(acmr))
        deaths == QMul(row.population, probability_of_death)
        population == survivors(row.population, probability_of_death)
        bau_probability_of_death == QSub(One, ExpNeg(bau_acmr))
        bau_deaths == QMul(row.bau_population, bau_probability_of_death)
        bau_population ==
            survivors(row.bau_population, bau_probability_of_death)
    IN  [row EXCEPT
            !.acmr = acmr,
            !.acmr_prop = acmr_prop,
            !.population = population,
            !.pr_death = probability_of_death,
            !.deaths = deaths,
            !.person_years = QAdd(population, QMul(Half, deaths)),
            !.bau_acmr = bau_acmr,
            !.bau_population = bau_population,
            !.bau_pr_death = bau_probability_of_death,
            !.bau_deaths = bau_deaths,
            !.bau_person_years =
                QAdd(bau_population, QMul(Half, bau_deaths))]

\* pop.bau_acmr = self.mortality_agg(event.index)
bau_acmr_lookup_modified(agg, src, key) == agg[key]

\* Line 213: pop.bau_acmr = self.mortality_agg.source(event.index)
bau_acmr_lookup(agg, src, key) == src[key]

\* Every outcome [kind, pdb, lookups, calls, table] of Mortality.on_time_step.
\* agg and src are the values of mortality_agg(index) and
\* mortality_agg.source(index) by cohort key, prop the values of
\* mortality_prop(index) by row; lookups names the rate producers the handler
\* called (none before the return of line 170, the source only at line 213)
\* and calls counts its calls of get_subpop_rates_2state.
mortality_on_time_step(table, agg, src, prop) ==
    LET view == view_get(table)
        start == [acmr |-> [r \in view |-> agg[<<table[r].sex, table[r].age>>]],
                  kind |-> "ok", pdb |-> FALSE, calls |-> 0]
    IN  IF view = {}
        THEN {[kind |-> "ok", pdb |-> FALSE, lookups |-> {}, calls |-> 0,
               table |-> table]}
        ELSE {[kind |-> st.kind, pdb |-> st.pdb,
               lookups |-> {"mortality_agg", "mortality_prop"} \cup
                           (IF st.kind = "ok" THEN {"mortality_agg.source"}
                            ELSE {}),
               calls |-> st.calls,
               table |->
                  IF st.kind # "ok" THEN table
                  ELSE [r \in DOMAIN table |->
                           IF r \in view
                           THEN mortality_row(table[r], st.acmr[r], prop[r],
                                    bau_acmr_lookup(agg, src,
                                        <<table[r].sex, table[r].age>>))
                           ELSE table[r]]] :
                st \in mortality_loop(SortKeys(CohortKeys(table, view)),
                                      start, table, view, prop)}

\* --------------------------------------------------- Disability.on_time_step
\* Lines 304-307: as merge_acmr, for the yld_rate column.
merge_yld_rate(col, rates) ==
    [r \in DOMAIN col |->
        IF r \in DOMAIN rates /\ ~IsNaN(rates[r]) THEN rates[r] ELSE col[r]]

\* Lines 293-307: the loop over the cohorts; col is pop_prop.yld_rate so far.
RECURSIVE disability_loop(_, _, _, _, _)
disability_loop(keys, col, table, view, prop) ==
    IF keys = <<>> THEN col
    ELSE LET strata == Strata(table, view, Head(keys))
             py == [r \in strata |-> table[r].person_years]
             rates == disaggregate_YLD(Total(py), col[First(strata)], py,
                                       [r \in strata |-> prop[r]])
         IN  disability_loop(Tail(keys), merge_yld_rate(col, rates),
                             table, view, prop)

\* Lines 309-313: the update of one row.
disability_row(row, yld_rate, yld_prop, bau_yld_rate) ==
    [row EXCEPT
        !.yld_rate = yld_rate,
        !.yld_prop = yld_prop,
        !.HALY = QMul(row.person_years, QSub(One, yld_rate)),
        !.bau_yld_rate = bau_yld_rate,
        !.bau_HALY = QMul(row.bau_person_years, QSub(One, bau_yld_rate))]

\* The outcome [lookups, calls, table] of Disability.on_time_step.  agg and
\* src are yld_agg(index) and yld_agg.source(index) by cohort key, prop is
\* yld_prop(index) by row; lookups names the rate producers the handler
\* called (none before the return of line 279) and calls counts its calls of
\* disaggregate_YLD.
disability_on_time_step(table, agg, src, prop) ==
    LET view == view_get(table)
        keys == SortKeys(CohortKeys(table, view))
        col == disability_loop(
                  keys,
                  [r \in view |-> agg[<<table[r].sex, table[r].age>>]],
                  table, view, prop)
    IN  IF view = {} THEN [lookups |-> {}, calls |-> 0, table |-> table]
        ELSE [lookups |-> {"yld_agg", "yld_prop", "yld_agg.source"},
              calls |-> Len(keys),
              table |->
                 [r \in DOMAIN table |->
                     IF r \in view
                     THEN disability_row(table[r], col[r], prop[r],
                              src[<<table[r].sex, table[r].age>>])
                     ELSE table[r]]]

\* State
VARIABLES
    pop,      \* the population table: row index -> columns
    clock,    \* clock().year - start_year
    phase,    \* the listener that runs next: "prepare", "mortality", "disability"
    status,   \* "running", or the exception that ended the simulation
    pdb,      \* the last mortality update entered the debugger
    same,     \* every rate lookup so far returned its source value
    call,     \* the arguments of a direct call of a disaggregator; in a
              \* simulation run, the lookups and calls of the last handler
    at,       \* where that call is: "idle", "call", "pdb", "done"
    out,      \* its outcome [kind, rates]
    twin,     \* [pop, status] of a second run on the same source rates
    initial_age   \* history: the age each row was initialized with

vars == <<pop, clock, phase, status, pdb, same, call, at, out, twin,
          initial_age>>
engine == <<pop, clock, phase, status, pdb, same, initial_age>>
direct == <<call, at, out>>

NoCall == [fn |-> "none"]
NoOut == [kind |-> "none", rates |-> <<>>]
NoTwin == [pop |-> <<>>, status |-> "none"]

\* ------------------------------------------------------------ input tables
\* population.agg and population.prop: a female cohort of two strata and a
\* male cohort of one stratum, aged max_age - 1 or max_age.
InputTables ==
    {[agg |-> <<[age |-> max_age, sex |-> "female", value |-> Q(2, 1)],
                [age |-> a, sex |-> "male", value |-> One]>>,
      prop |-> <<[age |-> max_age, sex |-> "female", strata |-> 0, value |-> p],
                 [age |-> max_age, sex |-> "female", strata |-> 1,
                  value |-> QSub(One, p)],
                 [age |-> a, sex |-> "male", strata |-> 0, value |-> One]>>] :
        a \in {max_age - 1, max_age}, p \in {Half, One}}

\* Values the rate lookups return.
MortalityRates == {Rate(Half), RateZero}
MortalitySource == {Rate(Half)}
YldRates == {Zero, Half}
YldSource == {Half}
\* Ratios by stratum: stratum 0 is the reference stratum.
Ratios(strata) == IF strata = 0 THEN 0..1 ELSE 0..MaxRatio

RatioTables(table) ==
    {t \in [view_get(table) -> 0..MaxRatio] :
        \A r \in view_get(table) : t[r] \in Ratios(table[r].strata)}

Keys(table) == CohortKeys(table, view_get(table))

\* --------------------------------------------------------------- listeners
\* Disability.on_time_step registered for 'time_step__prepare'.
listener_event_disability_early(handler) ==
    IF handler \in {"prepare", "disability"} THEN "time_step__prepare"
    ELSE "time_step"

\* register_listener, lines 90, 132 and 250: the event each handler listens
\* to.
listener_event(handler) ==
    IF handler = "prepare" THEN "time_step__prepare" ELSE "time_step"

\* The events of one time step that have listeners, in the order they are
\* emitted.
step_events == <<"time_step__prepare", "time_step">>

\* The components in the order the simulation sets them up: the listeners of
\* one event run in this order.
components == <<"prepare", "mortality", "disability">>

\* The handlers of one time step in the order they run.
schedule ==
    SelectSeq(components, LAMBDA h : listener_event(h) = step_events[1])
        \o SelectSeq(components, LAMBDA h : listener_event(h) = step_events[2])

\* The handler that runs after handler h.
next_listener(h) ==
    LET i == CHOOSE k \in 1..Len(schedule) : schedule[k] = h
    IN  schedule[(i % Len(schedule)) + 1]

\* The clock after handler h: it advances after the last handler of a step.
clock_after(h) == IF schedule[Len(schedule)] = h THEN clock + 1 ELSE clock

\* ------------------------------------------------------------------ engine
EngineInit ==
    /\ \E t \in InputTables : pop = load_population_data(t.agg, t.prop)
    /\ initial_age = [r \in DOMAIN pop |-> pop[r].age]
    /\ clock = 0
    /\ phase = "prepare"
    /\ status = "running"
    /\ pdb = FALSE
    /\ same = TRUE

\* time_step__prepare: BasePopulation.on_time_step_prepare
Prepare ==
    /\ status = "running"
    /\ phase = "prepare"
    /\ clock < MaxSteps
    /\ pop' = on_time_step_prepare(pop, clock)
    /\ phase' = next_listener("prepare")
    /\ clock' = clock_after("prepare")
    /\ call' = [fn |-> "BasePopulation.on_time_step_prepare",
                lookups |-> {}, calls |-> 0, agg |-> <<>>]
    /\ UNCHANGED <<status, pdb, same>>

\* time_step: Mortality.on_time_step
MortalityStep ==
    /\ status = "running"
    /\ phase = "mortality"
    /\ \E agg \in [Keys(pop) -> MortalityRates],
          src \in [Keys(pop) -> MortalitySource],
          prop \in RatioTables(pop) :
         \E o \in mortality_on_time_step(pop, agg, src, prop) :
            /\ pop' = o.table
            /\ pdb' = o.pdb
            /\ status' = IF o.kind = "ok" THEN "running" ELSE o.kind
            /\ phase' = IF o.kind = "ok" THEN next_listener("mortality")
                        ELSE phase
            /\ clock' = IF o.kind = "ok" THEN clock_after("mortality")
                        ELSE clock
            /\ call' = [fn |-> "Mortality.on_time_step",
                        lookups |-> o.lookups, calls |-> o.calls,
                        agg |-> agg]
            /\ same' = (same /\ agg = src)

\* time_step: Disability.on_time_step
DisabilityStep ==
    /\ status = "running"
    /\ phase = "disability"
    /\ \E agg \in [Keys(pop) -> YldRates],
          src \in [Keys(pop) -> YldSource],
          prop \in RatioTables(pop) :
         LET o == disability_on_time_step(pop, agg, src, prop)
         IN  /\ pop' = o.table
             /\ call' = [fn |-> "Disability.on_time_step",
                         lookups |-> o.lookups, calls |-> o.calls,
                         agg |-> agg]
             /\ same' = (same /\ agg = src)
    /\ phase' = next_listener("disability")
    /\ clock' = clock_after("disability")
    /\ UNCHANGED <<status, pdb>>

Init ==
    /\ EngineInit
    /\ call = NoCall
    /\ at = "idle"
    /\ out = NoOut
    /\ twin = NoTwin

Next ==
    \/ Prepare /\ UNCHANGED <<at, out, twin, initial_age>>
    \/ MortalityStep /\ UNCHANGED <<at, out, twin, initial_age>>
    \/ DisabilityStep /\ UNCHANGED <<at, out, twin, initial_age>>

Spec == Init /\ [][Next]_vars

\* Direct calls of the two disaggregators
Sizes == {Q(n, 1) : n \in 0..MaxPop}
\* Aggregate mortality rates with survival k/Grid, k = Grid being rate 0.
CallRates == {Rate(GridPoint(k)) : k \in 1..Grid}
CallYldRates == {Zero, Q(1, 4), Half, One}

\* The stratum sizes and ratios of a call, with the aggregate size: the sum
\* of the stratum sizes, as the time-step handlers pass it, or one more.
Cohorts ==
    UNION {{[agg |-> QAdd(Total(subs), extra), subs |-> subs, ratios |-> ratios] :
               subs \in [1..n -> Sizes], ratios \in [1..n -> 0..MaxRatio],
               extra \in {Zero, One}} :
              n \in 1..MaxStrata}

MortalityCalls ==
    {[fn |-> "get_subpop_rates_2state", agg |-> c.agg, rate |-> rate,
      subs |-> c.subs, ratios |-> c.ratios] : c \in Cohorts, rate \in CallRates}

YldCalls ==
    {[fn |-> "disaggregate_YLD", agg |-> c.agg, yld_rate |-> rate,
      subs |-> c.subs, ratios |-> c.ratios] : c \in Cohorts, rate \in CallYldRates}

EngineIdle ==
    /\ pop = <<>>
    /\ initial_age = <<>>
    /\ clock = 0
    /\ phase = "none"
    /\ status = "running"
    /\ pdb = FALSE
    /\ same = TRUE

CallInit ==
    /\ EngineIdle
    /\ call \in MortalityCalls \cup YldCalls
    /\ at = "call"
    /\ out = NoOut
    /\ twin = NoTwin

\* get_subpop_rates_2state up to its return, its exception, or line 158.
CallMortality ==
    /\ at = "call"
    /\ call.fn = "get_subpop_rates_2state"
    /\ \E o \in get_subpop_rates_2state(call.agg, call.rate, call.subs, call.ratios) :
          IF o.pdb
          THEN at' = "pdb" /\ out' = out
          ELSE at' = "done" /\ out' = [kind |-> o.kind, rates |-> o.rates]
    /\ UNCHANGED call

\* The debugger session ends with `continue`: lines 159-160 run.
PdbContinue ==
    /\ at = "pdb"
    /\ \E o \in solve_root(call.agg, call.rate, call.subs, call.ratios) :
          out' = o
    /\ at' = "done"
    /\ UNCHANGED call

\* The debugger session ends with `quit` (or end of input): bdb.BdbQuit.
PdbQuit ==
    /\ at = "pdb"
    /\ out' = [kind |-> "BdbQuit", rates |-> <<>>]
    /\ at' = "done"
    /\ UNCHANGED call

CallDisability ==
    /\ at = "call"
    /\ call.fn = "disaggregate_YLD"
    /\ out' = [kind |-> "return",
               rates |-> disaggregate_YLD(call.agg, call.yld_rate, call.subs,
                                          call.ratios)]
    /\ at' = "done"
    /\ UNCHANGED call

CallNext ==
    \/ CallMortality /\ UNCHANGED <<engine, twin>>
    \/ PdbContinue /\ UNCHANGED <<engine, twin>>
    \/ PdbQuit /\ UNCHANGED <<engine, twin>>
    \/ CallDisability /\ UNCHANGED <<engine, twin>>

CallSpec == CallInit /\ [][CallNext]_vars

\* ---------------------------------------------------------------- properties
IsMortalityCall == call.fn = "get_subpop_rates_2state"
IsYldCall == call.fn = "disaggregate_YLD"
Returned == at = "done" /\ out.kind = "return"

\* sum_i(sub_populations[i] * exp(-sub_rates[i]))
StratumSurvivors ==
    Total([i \in DOMAIN call.subs |-> QMul(call.subs[i], ExpNeg(out.rates[i]))])

\* agg_population * exp(-agg_rate)
AggregateSurvivors == QMul(call.agg, ExpNeg(call.rate))

\* What one solver tolerance (a cell of width 1/Grid around the root) is worth
\* on f: f is non-decreasing with slope at most sum_i(sub_pops[i] * ratio[i]).
SolverTolerance ==
    QDiv(Total([i \in DOMAIN call.subs |->
                   QMul(call.subs[i], Q(call.ratios[i], 1))]),
         Q(Grid, 1))

Conserved ==
    QLe(QAbs(QSub(StratumSurvivors, AggregateSurvivors)), SolverTolerance)

\* C1: for agg_rate > 0, ratios >= 0 and sum(sub_populations) = agg_population,
\* the rates get_subpop_rates_2state returns make the stratum survivors sum
\* to the aggregate survivors within the solver tolerance.
C1_Conservation ==
    (/\ IsMortalityCall
     /\ call.rate # RateZero
     /\ Total(call.subs) = call.agg
     /\ Returned) => Conserved

\* The rates of a call that found a sign change on [0, 1] conserve the
\* survivors (the case of C1 the code handles).
BracketedConservation ==
    (/\ IsMortalityCall
     /\ call.rate # RateZero
     /\ Total(call.subs) = call.agg
     /\ ~no_sign_change(call.agg, call.rate, call.subs, call.ratios)
     /\ Returned) => Conserved

BracketedWitness ==
    /\ IsMortalityCall
    /\ Returned
    /\ call.rate # RateZero
    /\ Total(call.subs) = call.agg
    /\ Len(call.subs) = 2
    /\ call.ratios[1] # call.ratios[2]
    /\ call.ratios[1] > 0
    /\ call.ratios[2] > 0
    /\ StratumSurvivors # AggregateSurvivors

\* sum_i(sub_person_years[i] * (1 - sub_yld_rates[i]))
StratumHealthyYears ==
    Total([i \in DOMAIN call.subs |->
              QMul(call.subs[i], QSub(One, out.rates[i]))])

\* agg_person_years * (1 - agg_yld_rate)
AggregateHealthyYears == QMul(call.agg, QSub(One, call.yld_rate))

\* np.sum(sub_yld_ratios * sub_py)
WeightedYears ==
    Total([i \in DOMAIN call.subs |->
              QMul(Q(call.ratios[i], 1), call.subs[i])])

C3_ExplicitError ==
    (/\ IsMortalityCall
     /\ call.rate # RateZero
     /\ no_sign_change(call.agg, call.rate, call.subs, call.ratios)
     /\ at # "call") => at = "done" /\ out.kind = "ValueError"

\* The agreement of a returned stratum rate with the aggregate rate, on the
\* survival scale, within one solver tolerance.
SameRate(i) ==
    QLe(QAbs(QSub(ExpNeg(out.rates[i]), ExpNeg(call.rate))),
        Q(call.ratios[i], Grid))

SingleStratum ==
    /\ IsMortalityCall
    /\ Len(call.subs) = 1
    /\ call.subs[1] = call.agg

\* C10 as stated: a cohort of one stratum gets sub_rate = agg_rate, for
\* every agg_rate >= 0 and every ratio >= 0.
C10_Claimed ==
    (SingleStratum /\ at # "call") => Returned /\ SameRate(1)

\* C10 amended: a cohort of one stratum gets sub_rate = agg_rate (within the
\* solver tolerance) when agg_rate = 0, or when its ratio and its population
\* are both positive.
C10_SingleStratum ==
    (/\ SingleStratum
     /\ at # "call"
     /\ \/ call.rate = RateZero
        \/ call.ratios[1] > 0 /\ call.agg # Zero)
    => Returned /\ SameRate(1)

C10_Witness ==
    /\ SingleStratum
    /\ Returned
    /\ call.rate # RateZero
    /\ call.ratios[1] > 1
    /\ call.agg # Zero

\* ------------------------------------------------------- engine properties
Rows == DOMAIN pop

\* C4: if the disaggregation of a cohort fails (its interval holds no sign
\* change) during a mortality update, the update writes nothing: the stored
\* table is the same after it as before it.
C4_AllOrNothing ==
    [][(phase = "mortality" /\ pdb') => pop' = pop]_vars

BauEqualsIntervention(r) ==
    /\ pop[r].bau_acmr = pop[r].acmr
    /\ pop[r].bau_pr_death = pop[r].pr_death
    /\ pop[r].bau_deaths = pop[r].deaths
    /\ pop[r].bau_population = pop[r].population
    /\ pop[r].bau_person_years = pop[r].person_years
    /\ pop[r].bau_yld_rate = pop[r].yld_rate
    /\ pop[r].bau_HALY = pop[r].HALY

\* C6: while every rate lookup has returned its source value, the BAU
\* columns of each stratum equal its intervention columns.
C6_TracksAgree == same => \A r \in Rows : BauEqualsIntervention(r)

Frozen(r) ==
    /\ pop'[r].population = pop[r].population
    /\ pop'[r].deaths = pop[r].deaths
    /\ pop'[r].pr_death = pop[r].pr_death
    /\ pop'[r].person_years = pop[r].person_years
    /\ pop'[r].yld_rate = pop[r].yld_rate
    /\ pop'[r].HALY = pop[r].HALY
    /\ pop'[r].age = pop[r].age

AfterPrepare == phase # "prepare" \/ clock > 0

\* C7: a stratum with age > max_age after a prepare step is untracked, stays
\* untracked, and no later update writes its population, deaths, pr_death,
\* person_years, yld_rate, HALY or age.
C7_Retirement ==
    [][\A r \in Rows :
          (AfterPrepare /\ pop[r].age > max_age) =>
             /\ ~pop[r].tracked
             /\ ~pop'[r].tracked
             /\ Frozen(r)]_vars

\* A retired stratum, after a later step updated the mortality and the
\* disability of a stratum still tracked.
C7_Witness ==
    /\ phase = "prepare"
    /\ clock > 1
    /\ \E r, q \in Rows :
          /\ pop[r].age > max_age
          /\ ~pop[r].tracked
          /\ pop[r].deaths # Zero
          /\ pop[q].tracked
          /\ pop[q].deaths # Zero
          /\ pop[q].HALY # Zero

\* C8: after on_time_step_prepare, every row whose age is max_age or more is
\* untracked.
C8_RemovedAtMaxAge ==
    phase = "mortality" =>
        \A r \in Rows : pop[r].age >= max_age => ~pop[r].tracked

\* C9: no step increases the population or the bau_population of a stratum,
\* and only the mortality update changes them.
C9_Monotonic ==
    [][\A r \in Rows :
          /\ QLe(pop'[r].population, pop[r].population)
          /\ QLe(pop'[r].bau_population, pop[r].bau_population)
          /\ phase # "mortality" =>
                /\ pop'[r].population = pop[r].population
                /\ pop'[r].bau_population = pop[r].bau_population]_vars

\* A stratum whose population fell in each of two successive mortality
\* updates.
C9_Witness ==
    /\ phase = "disability"
    /\ clock = 1
    /\ \E r \in Rows :
          /\ pop[r].tracked
          /\ pop[r].deaths # Zero
          /\ pop[r].bau_deaths # Zero
          /\ QLt(QAdd(pop[r].population, pop[r].deaths), One)

\* The cohort of a row.
CohortOf(r) == <<pop[r].sex, pop[r].age>>

\* C11: a cohort whose aggregate mortality rate is 0 keeps its population
\* in that step and, when the step completes, has acmr = 0, pr_death = 0 and
\* deaths = 0 in every stratum; a step all of whose cohorts have aggregate
\* mortality rate 0 solves no root, so it neither raises nor enters the
\* debugger; a cohort whose aggregate YLD rate is 0 has yld_rate = 0 in
\* every stratum, and so loses no HALY (HALY = person_years).
C11_ZeroRate ==
    [][/\ phase = "mortality" =>
            /\ \A r \in Rows :
                  (pop[r].tracked /\ call'.agg[CohortOf(r)] = RateZero) =>
                     /\ pop'[r].population = pop[r].population
                     /\ status' = "running" =>
                            /\ pop'[r].acmr = RateZero
                            /\ pop'[r].pr_death = Zero
                            /\ pop'[r].deaths = Zero
            /\ (\A k \in DOMAIN call'.agg : call'.agg[k] = RateZero) =>
                  status' = "running" /\ ~pdb'
       /\ phase = "disability" =>
            \A r \in Rows :
               (pop[r].tracked /\ call'.agg[CohortOf(r)] = Zero) =>
                  /\ pop'[r].yld_rate = Zero
                  /\ pop'[r].HALY = pop[r].person_years]_vars

\* A completed step in which a cohort of two strata with different positive
\* ratios had aggregate mortality rate 0 and aggregate YLD rate 0, next to a
\* cohort that lost population and HALY.
C11_Witness ==
    /\ phase = "prepare"
    /\ clock > 0
    /\ call.fn = "Disability.on_time_step"
    /\ \E r, q, o \in Rows :
          /\ r # q
          /\ pop[r].tracked /\ pop[q].tracked /\ pop[o].tracked
          /\ CohortOf(r) = CohortOf(q)
          /\ call.agg[CohortOf(r)] = Zero
          /\ pop[r].population # Zero /\ pop[q].population # Zero
          /\ pop[r].acmr_prop > 0 /\ pop[q].acmr_prop > pop[r].acmr_prop
          /\ pop[r].acmr = RateZero /\ pop[q].acmr = RateZero
          /\ pop[r].deaths = Zero /\ pop[q].deaths = Zero
          /\ pop[r].yld_prop > 0 /\ pop[q].yld_prop > pop[r].yld_prop
          /\ pop[r].yld_rate = Zero /\ pop[q].yld_rate = Zero
          /\ pop[r].HALY = pop[r].person_years
          /\ pop[o].deaths # Zero
          /\ pop[o].yld_rate # Zero

\* A direct call with aggregate rate 0 returns the rate 0 for every stratum
\* at once: it never stops in the debugger and never raises.
ZeroRateFastPath ==
    /\ (IsMortalityCall /\ call.rate = RateZero /\ at # "call") =>
          /\ Returned
          /\ \A i \in DOMAIN out.rates : out.rates[i] = RateZero
    /\ (IsYldCall /\ call.yld_rate = Zero /\ at # "call") =>
          /\ Returned
          /\ \A i \in DOMAIN out.rates : out.rates[i] = Zero

\* C14: within every time step the handlers run in the order prepare,
\* mortality, disability, and the clock advances after disability; the
\* mortality update works on the ages and tracked flags the same step's
\* prepare wrote (tracked rows are aged for this step, its lookups are made
\* for their cohorts, untracked rows are not touched), and the disability
\* update computes HALY from the person_years the same step's mortality
\* update wrote (the ones that match the current population and deaths).
C14_Sequential ==
    [][/\ phase = "prepare" => phase' = "mortality" /\ clock' = clock
       /\ phase = "mortality" =>
            /\ clock' = clock
            /\ status' = "running" => phase' = "disability"
            /\ DOMAIN call'.agg = {CohortOf(r) : r \in view_get(pop)}
            /\ \A r \in Rows :
                  IF pop[r].tracked
                  THEN pop[r].age = initial_age[r] + clock
                  ELSE pop'[r] = pop[r]
       /\ phase = "disability" =>
            /\ phase' = "prepare"
            /\ clock' = clock + 1
            /\ \A r \in Rows :
                  pop[r].tracked =>
                     /\ pop[r].person_years =
                           QAdd(pop[r].population, QMul(Half, pop[r].deaths))
                     /\ pop'[r].HALY =
                           QMul(pop[r].person_years,
                                QSub(One, pop'[r].yld_rate))]_vars

\* Two completed steps, the second of which aged a row, took deaths from it
\* and took disability from its new person_years.
C14_Witness ==
    /\ phase = "prepare"
    /\ clock > 1
    /\ \E r \in Rows :
          /\ pop[r].tracked
          /\ pop[r].age = initial_age[r] + clock - 1
          /\ pop[r].deaths # Zero
          /\ pop[r].population # Zero
          /\ pop[r].yld_rate # Zero
          /\ pop[r].HALY # Zero
          /\ pop[r].HALY # pop[r].person_years

\* C15: the prepare of the first time step changes no age; the prepare of
\* every later time step adds exactly 1 to the age of each tracked row and
\* leaves the age of the untracked rows as it is; so a row still tracked
\* after the n-th prepare (n = clock + 1) has its initial age plus n - 1.
C15_Aging ==
    [][phase = "prepare" =>
          \A r \in Rows :
             /\ pop'[r].age = IF clock > 0 /\ pop[r].tracked
                              THEN pop[r].age + 1 ELSE pop[r].age
             /\ pop'[r].tracked =>
                   pop'[r].age = initial_age[r] + (clock + 1) - 1]_vars

\* After the third prepare: a row retired by the second prepare kept its
\* age, next to a row the second prepare aged and the third retired.
C15_Witness ==
    /\ phase = "mortality"
    /\ clock = 2
    /\ \E r, q \in Rows :
          /\ ~pop[r].tracked
          /\ pop[r].age = initial_age[r] + 1
          /\ ~pop[q].tracked
          /\ pop[q].age = initial_age[q] + 2

\* C16: when no row is tracked, the mortality update and the disability
\* update raise nothing, call no rate producer and no disaggregator, and
\* leave every column of every row as it was.
C16_EmptyStep ==
    [][(/\ phase \in {"mortality", "disability"}
        /\ \A r \in Rows : ~pop[r].tracked) =>
          /\ pop' = pop
          /\ status' = "running"
          /\ pdb' = FALSE
          /\ call'.lookups = {}
          /\ call'.calls = 0]_vars

\* A whole step ran on an empty tracked population, after earlier steps
\* had written deaths and HALY to the rows.
C16_Witness ==
    /\ phase = "prepare"
    /\ clock > 1
    /\ call.fn = "Disability.on_time_step"
    /\ call.lookups = {}
    /\ call.calls = 0
    /\ \A r \in Rows : ~pop[r].tracked
    /\ \E r \in Rows : pop[r].deaths # Zero /\ pop[r].HALY # Zero

\* ---------------------------------------------------------- initialization
\* population.agg and population.prop as the artifact may hold them: the
\* proportions of a cohort are any quarters, and a cohort may have no row in
\* population.prop at all.
Proportions == {Zero, Q(1, 4), Half, Q(3, 4), One}

LoadTables ==
    {[agg |-> <<[age |-> max_age, sex |-> "female", value |-> v],
                [age |-> a, sex |-> "male", value |-> One]>>,
      prop |-> <<[age |-> max_age, sex |-> "female", strata |-> 0, value |-> p],
                 [age |-> max_age, sex |-> "female", strata |-> 1, value |-> q]>>
               \o male] :
        v \in {One, Q(2, 1)}, a \in {max_age - 1, max_age},
        p \in Proportions, q \in Proportions,
        male \in {<<>>}
            \cup {<<[age |-> a2, sex |-> "male", strata |-> 0, value |-> w]>> :
                    a2 \in {max_age - 1, max_age}, w \in {Half, One}}}

\* Before setup: no simulant exists, the artifact holds the tables.
LoadInit ==
    /\ pop = <<>>
    /\ initial_age = <<>>
    /\ clock = 0
    /\ phase = "setup"
    /\ status = "running"
    /\ pdb = FALSE
    /\ same = TRUE
    /\ \E t \in LoadTables :
          call = [fn |-> "load_population_data", agg |-> t.agg, prop |-> t.prop]
    /\ at = "idle"
    /\ out = NoOut
    /\ twin = NoTwin

\* BasePopulation.setup and on_initialize_simulants.
InitializeSimulants ==
    /\ phase = "setup"
    /\ pop' = load_population_data(call.agg, call.prop)
    /\ initial_age' = [r \in DOMAIN pop' |-> pop'[r].age]
    /\ phase' = "prepare"
    /\ UNCHANGED <<clock, status, pdb, same, direct, twin>>

LoadNext == InitializeSimulants

LoadSpec == LoadInit /\ [][LoadNext]_vars

\* The strata of a cohort of population.agg in the initialized table.
LoadedStrata(c) == {r \in Rows : pop[r].age = c.age /\ pop[r].sex = c.sex}

\* sum(prop) over the rows of population.prop for a cohort.
ProportionSum(c) ==
    LET rows == {n \in 1..Len(call.prop) :
                    call.prop[n].age = c.age /\ call.prop[n].sex = c.sex}
    IN  Total([n \in rows |-> call.prop[n].value])

\* C12: after initialization, the population of the strata of every cohort
\* of population.agg sums to the cohort's aggregate population, the same
\* holds for bau_population, and every stratum starts with bau_population =
\* population.
C12_SumsToAggregate ==
    phase = "prepare" =>
        /\ \A n \in 1..Len(call.agg) :
              LET c == call.agg[n]
              IN  /\ Total([r \in LoadedStrata(c) |-> pop[r].population])
                        = c.value
                  /\ Total([r \in LoadedStrata(c) |-> pop[r].bau_population])
                        = c.value
        /\ \A r \in Rows : pop[r].bau_population = pop[r].population

\* The same, for the cohorts whose proportions sum to 1: what the code does
\* guarantee.
NormalizedLoadSums ==
    phase = "prepare" =>
        /\ \A n \in 1..Len(call.agg) :
              LET c == call.agg[n]
              IN  ProportionSum(c) = One =>
                  /\ Total([r \in LoadedStrata(c) |-> pop[r].population])
                        = c.value
                  /\ Total([r \in LoadedStrata(c) |-> pop[r].bau_population])
                        = c.value
        /\ \A r \in Rows : pop[r].bau_population = pop[r].population

\* ------------------------------------------------------- disaggregate_pop
\* disaggregate.py, lines 53-55: the call of the function object
\* disaggregate_func.
call_disaggregate_func(disaggregate_func, agg, rate, subs, ratios) ==
    CASE disaggregate_func = "disaggregate_YLD" ->
            disaggregate_YLD(agg, rate, subs, ratios)

\* disaggregate.py, lines 36-63: the rateName column disaggregate_pop
\* returns.  pop is the view it is given (row index -> columns),
\* pop_agg_src and pop_prop_src the two sources by row index; rate[n] is
\* pop_prop[rateName] after the n-th cohort of the loop, the merge on the
\* index with fillna being that of merge_yld_rate.  disaggregate_func is the
\* function object passed in, named by its name.
disaggregate_pop(pop_view, scalarName, pop_agg_src, pop_prop_src, disaggregate_func) ==
    LET rows == DOMAIN pop_view
        keys == SortKeys(CohortKeys(pop_view, rows))
        rate[n \in 0..Len(keys)] ==
            IF n = 0 THEN [r \in rows |-> pop_agg_src[r]]
            ELSE LET strata == Strata(pop_view, rows, keys[n])
                     scalars == [r \in strata |-> pop_view[r][scalarName]]
                     rates == call_disaggregate_func(disaggregate_func,
                                 Total(scalars), rate[n - 1][First(strata)],
                                 scalars, [r \in strata |-> pop_prop_src[r]])
                 IN  merge_yld_rate(rate[n - 1], rates)
    IN  rate[Len(keys)]

\* Views of three rows in two cohorts, in every interleaving of the cohorts.
PopViews ==
    {[r \in 1..3 |->
         [age |-> max_age, sex |-> sx[r], strata |-> r,
          person_years |-> py[r]]] :
       sx \in {<<"female", "female", "male">>, <<"female", "male", "female">>,
               <<"male", "female", "female">>, <<"male", "male", "female">>},
       py \in [1..3 -> Sizes \ {Zero}]}

\* The aggregate YLD rate by row: one value for each cohort.
PopRates(pop_view) ==
    {[r \in DOMAIN pop_view |-> by[pop_view[r].sex]] :
        by \in [Sexes -> {Zero, Q(1, 4), Half}]}

\* The rate ratios by row.
PopRatios(pop_view) == [DOMAIN pop_view -> 0..MaxRatio]

PopInit ==
    /\ EngineIdle
    /\ \E v \in PopViews :
          \E a \in PopRates(v), p \in PopRatios(v) :
             call = [fn |-> "disaggregate_pop", view |-> v, agg_src |-> a,
                     prop_src |-> p]
    /\ at = "call"
    /\ out = NoOut
    /\ twin = NoTwin

\* disaggregate_pop(pop, 'person_years', 'yld_rate', 'yld_prop', agg_src,
\* prop_src, disaggregate_YLD)
CallDisaggregatePop ==
    /\ at = "call"
    /\ call.fn = "disaggregate_pop"
    /\ out' = [kind |-> "return",
               rates |-> disaggregate_pop(call.view, "person_years",
                            call.agg_src, call.prop_src, "disaggregate_YLD")]
    /\ at' = "done"
    /\ UNCHANGED <<call, engine, twin>>

PopNext == CallDisaggregatePop

PopSpec == PopInit /\ [][PopNext]_vars

\* The rows of the view in the cohort of row r.
CohortRows(r) ==
    {q \in DOMAIN call.view :
        /\ call.view[q].sex = call.view[r].sex
        /\ call.view[q].age = call.view[r].age}

\* What disaggregate_func returns when called on the cohort of row r with
\* the cohort's summed scalar and its aggregate rate.
CohortRates(r) ==
    LET scalars == [q \in CohortRows(r) |-> call.view[q].person_years]
    IN  disaggregate_YLD(Total(scalars), call.agg_src[r], scalars,
                         [q \in CohortRows(r) |-> call.prop_src[q]])

\* C13: disaggregate_pop returns one rate for each row of its view, under
\* the row's index, and the rate of a row is the one disaggregate_func
\* returned for it when called for the row's own cohort with the cohort's
\* summed scalar and the cohort's aggregate rate, whatever was written for
\* the cohorts processed before.
C13_RowIdentity ==
    (call.fn = "disaggregate_pop" /\ Returned) =>
        /\ DOMAIN out.rates = DOMAIN call.view
        /\ \A r \in DOMAIN call.view : out.rates[r] = CohortRates(r)[r]

\* What the merge of lines 59-61 does guarantee: the same, except that a row
\* for which disaggregate_func returned nan keeps the aggregate rate.
StratifierFallback ==
    (call.fn = "disaggregate_pop" /\ Returned) =>
        /\ DOMAIN out.rates = DOMAIN call.view
        /\ \A r \in DOMAIN call.view :
              out.rates[r] = IF IsNaN(CohortRates(r)[r]) THEN call.agg_src[r]
                             ELSE CohortRates(r)[r]

\* ----------------------------------------------------------------- two runs
\* Two runs of the engine from the same initial state: at every step both
\* read the same source rates and the same ratio tables; the first run reads
\* the source values as its modified rates (nothing modifies them), the
\* second reads modified rates of its own.  A run that raised stays as the
\* exception left it.
Running == status = "running"
TwinRunning == twin.status = "running"

LiveTable == IF Running THEN pop ELSE twin.pop

\* Ratio tables of the two runs: the reference stratum has ratio 1, the
\* other strata ratio 0 or MaxRatio.
TwinRatioTables(table) ==
    {t \in RatioTables(table) :
        \A r \in DOMAIN t : IF table[r].strata = 0 THEN t[r] = 1
                             ELSE t[r] \in {0, MaxRatio}}

TwinInit ==
    /\ EngineInit
    /\ \A r \in DOMAIN pop : pop[r].population # Zero
    /\ twin = [pop |-> pop, status |-> "running"]
    /\ call = NoCall
    /\ at = "idle"
    /\ out = NoOut

TwinPrepare ==
    /\ Running \/ TwinRunning
    /\ phase = "prepare"
    /\ clock < MaxSteps
    /\ pop' = IF Running THEN on_time_step_prepare(pop, clock) ELSE pop
    /\ twin' = IF TwinRunning
               THEN [twin EXCEPT !.pop = on_time_step_prepare(twin.pop, clock)]
               ELSE twin
    /\ phase' = "mortality"
    /\ UNCHANGED <<clock, status, pdb, same>>

TwinMortalityStep ==
    /\ Running \/ TwinRunning
    /\ phase = "mortality"
    /\ \E src \in [Keys(LiveTable) -> MortalityRates],
          agg2 \in [Keys(LiveTable) -> MortalityRates],
          prop \in TwinRatioTables(LiveTable) :
         /\ IF Running
            THEN \E o \in mortality_on_time_step(pop, src, src, prop) :
                    /\ pop' = o.table
                    /\ pdb' = o.pdb
                    /\ status' = IF o.kind = "ok" THEN "running" ELSE o.kind
            ELSE UNCHANGED <<pop, pdb, status>>
         /\ IF TwinRunning
            THEN \E o \in mortality_on_time_step(twin.pop, agg2, src, prop) :
                    twin' = [pop |-> o.table,
                             status |-> IF o.kind = "ok" THEN "running"
                                        ELSE o.kind]
            ELSE UNCHANGED twin
    /\ phase' = "disability"
    /\ UNCHANGED <<clock, same>>

TwinDisabilityStep ==
    /\ Running \/ TwinRunning
    /\ phase = "disability"
    /\ \E src \in [Keys(LiveTable) -> YldRates],
          agg2 \in [Keys(LiveTable) -> YldRates],
          prop \in TwinRatioTables(LiveTable) :
         /\ pop' = IF Running
                   THEN disability_on_time_step(pop, src, src, prop).table
                   ELSE pop
         /\ twin' = IF TwinRunning
                    THEN [twin EXCEPT !.pop =
                            disability_on_time_step(twin.pop, agg2, src,
                                                    prop).table]
                    ELSE twin
    /\ phase' = "prepare"
    /\ clock' = clock + 1
    /\ UNCHANGED <<status, pdb, same>>

TwinNext ==
    \/ TwinPrepare /\ UNCHANGED <<direct, initial_age>>
    \/ TwinMortalityStep /\ UNCHANGED <<direct, initial_age>>
    \/ TwinDisabilityStep /\ UNCHANGED <<direct, initial_age>>

TwinSpec == TwinInit /\ [][TwinNext]_vars

SameBau(a, b) ==
    /\ a.bau_acmr = b.bau_acmr
    /\ a.bau_pr_death = b.bau_pr_death
    /\ a.bau_deaths = b.bau_deaths
    /\ a.bau_population = b.bau_population
    /\ a.bau_person_years = b.bau_person_years
    /\ a.bau_yld_rate = b.bau_yld_rate
    /\ a.bau_HALY = b.bau_HALY

\* C5: two runs from the same initial state on the same source rates have
\* the same BAU columns in every stratum after every step both completed,
\* whatever modified rates each of them read.
C5_BauIndependent ==
    (Running /\ TwinRunning) =>
        \A r \in Rows : SameBau(pop[r], twin.pop[r])

\* Two completed steps whose modified rates gave the runs different
\* intervention columns.
C5_Witness ==
    /\ Running
    /\ TwinRunning
    /\ phase = "prepare"
    /\ clock > 1
    /\ \E r \in Rows :
          /\ pop[r].tracked
          /\ pop[r].population # twin.pop[r].population
          /\ pop[r].HALY # twin.pop[r].HALY
          /\ pop[r].bau_deaths # Zero
          /\ pop[r].bau_HALY # pop[r].bau_person_years

====
